---- MODULE Spec2Model ----
(***************************************************************************)
(* Model of src/components/ControlPanel.tsx: the crane axis control panel. *)
(* The file holds two variants of the component: the networked one (lines  *)
(* 34-491, ceiling 1000000, axios requests) and the legacy one (lines      *)
(* 522-762, ceiling 100, mock sends that only raise a toast).              *)
(*                                                                         *)
(* Strings are sequences of one-character strings; JavaScript numbers are  *)
(* decimal values  (-1)^neg * m * 10^e  (or NaN).  Every input of the      *)
(* model has at most eight significant digits, so the decimal value is     *)
(* exactly what an IEEE double prints back for it.                         *)
(***************************************************************************)
EXTENDS Integers, Sequences, FiniteSets, TLC

(***************************************************************************)
(* Characters and strings                                                  *)
(***************************************************************************)
DigitChars == <<"0", "1", "2", "3", "4", "5", "6", "7", "8", "9">>

IsDigit(c) == \E i \in 1..10 : DigitChars[i] = c

DigitVal(c) == (CHOOSE i \in 1..10 : DigitChars[i] = c) - 1

\* The character at position i of s, or "" past the end.
CharAt(s, i) == IF i >= 1 /\ i <= Len(s) THEN s[i] ELSE ""

\* Length of the run of digits of s that starts at position i.
RECURSIVE DigitRun(_, _)
DigitRun(s, i) ==
    IF i <= Len(s) /\ IsDigit(s[i]) THEN 1 + DigitRun(s, i + 1) ELSE 0

\* The integer written by the n digits of s that start at position i.
RECURSIVE DigitsValue(_, _, _)
DigitsValue(s, i, n) ==
    IF n = 0 THEN 0
    ELSE 10 * DigitsValue(s, i, n - 1) + DigitVal(s[i + n - 1])

RECURSIVE Pow10(_)
Pow10(n) == IF n <= 0 THEN 1 ELSE 10 * Pow10(n - 1)

\* Number of decimal digits of the natural number m (1 for 0).
RECURSIVE NumDigits(_)
NumDigits(m) == IF m < 10 THEN 1 ELSE 1 + NumDigits(m \div 10)

\* The decimal digits of the natural number m, as a string.
RECURSIVE IntToString(_)
IntToString(m) ==
    IF m < 10 THEN <<DigitChars[m + 1]>>
    ELSE IntToString(m \div 10) \o <<DigitChars[(m % 10) + 1]>>

RECURSIVE Zeros(_)
Zeros(n) == IF n <= 0 THEN <<>> ELSE <<"0">> \o Zeros(n - 1)

\* String.prototype.toUpperCase on the characters the model uses.
UpperChar(c) ==
    CASE c = "x" -> "X"
      [] c = "y" -> "Y"
      [] c = "z" -> "Z"
      [] c = "e" -> "E"
      [] c = "k" -> "K"
      [] c = "a" -> "A"
      [] c = "b" -> "B"
      [] OTHER -> c

toUpperCase(s) == [i \in 1..Len(s) |-> UpperChar(s[i])]

(***************************************************************************)
(* JavaScript numbers                                                      *)
(***************************************************************************)
NaN == [nan |-> TRUE, neg |-> FALSE, m |-> 0, e |-> 0]

\* The number (-1)^neg * m * 10^e in canonical form: m has no trailing zero.
RECURSIVE Num(_, _, _)
Num(neg, m, e) ==
    IF m = 0 THEN [nan |-> FALSE, neg |-> neg, m |-> 0, e |-> 0]
    ELSE IF m % 10 = 0 THEN Num(neg, m \div 10, e + 1)
    ELSE [nan |-> FALSE, neg |-> neg, m |-> m, e |-> e]

isNaN(v) == v.nan

\* v < k for an integer k >= 0 (false when v is NaN, as in JavaScript).
\* Order of magnitude first, so that no power of ten overflows.
LessThanInt(v, k) ==
    /\ ~v.nan
    /\ \/ v.neg /\ v.m > 0
       \/ /\ ~v.neg \/ v.m = 0
          /\ k > 0
          /\ \/ v.m = 0
             \/ NumDigits(v.m) + v.e < NumDigits(k)
             \/ /\ NumDigits(v.m) + v.e = NumDigits(k)
                /\ IF v.e >= 0 THEN v.m * Pow10(v.e) < k
                   ELSE v.m < k * Pow10(-v.e)

\* v > k for an integer k >= 0 (false when v is NaN, as in JavaScript).
GreaterThanInt(v, k) ==
    /\ ~v.nan
    /\ ~v.neg
    /\ v.m > 0
    /\ \/ k = 0
       \/ NumDigits(v.m) + v.e > NumDigits(k)
       \/ /\ NumDigits(v.m) + v.e = NumDigits(k)
          /\ IF v.e >= 0 THEN v.m * Pow10(v.e) > k
             ELSE v.m > k * Pow10(-v.e)

\* v <= k, the comparison of the handlers' weight check.
LessOrEqualInt(v, k) == ~v.nan /\ ~GreaterThanInt(v, k)

\* The characters of s as one string value (for notification texts).
RECURSIVE Text(_)
Text(s) == IF s = <<>> THEN "" ELSE Head(s) \o Text(Tail(s))

\* Position of the first character of s that is not a blank.
RECURSIVE SkipBlanks(_, _)
SkipBlanks(s, i) ==
    IF i <= Len(s) /\ s[i] = " " THEN SkipBlanks(s, i + 1) ELSE i

\* parseFloat: the longest prefix of s (after leading blanks) that is a decimal
\* literal  [+-] digits [. digits] [e [+-] digits]  or  [+-] . digits [e ...];
\* NaN when there is none.  An exponent marker without digits is not consumed.
\* (The literal "Infinity" needs letters that no input of the model holds.)
parseFloat(s) ==
    LET p0   == SkipBlanks(s, 1)
        sgn  == CharAt(s, p0) \in {"-", "+"}
        neg  == CharAt(s, p0) = "-"
        p    == IF sgn THEN p0 + 1 ELSE p0
        a    == DigitRun(s, p)
        dot  == CharAt(s, p + a) = "."
        b    == IF dot THEN DigitRun(s, p + a + 1) ELSE 0
        q    == p + a + (IF dot THEN 1 + b ELSE 0)
        hasE == CharAt(s, q) \in {"e", "E"}
        esgn == CharAt(s, q + 1) \in {"-", "+"}
        r    == q + 1 + (IF esgn THEN 1 ELSE 0)
        c    == IF hasE THEN DigitRun(s, r) ELSE 0
        ex   == IF c = 0 THEN 0
                ELSE IF CharAt(s, q + 1) = "-" THEN 0 - DigitsValue(s, r, c)
                ELSE DigitsValue(s, r, c)
        mant == DigitsValue(s, p, a) * Pow10(b) + DigitsValue(s, p + a + 1, b)
    IN  IF a + b = 0 THEN NaN ELSE Num(neg, mant, ex - b)

\* parseInt (radix 10): an optional sign and the longest run of digits after
\* leading blanks; everything from the first other character on is ignored.
parseInt(s) ==
    LET p0  == SkipBlanks(s, 1)
        sgn == CharAt(s, p0) \in {"-", "+"}
        neg == CharAt(s, p0) = "-"
        p   == IF sgn THEN p0 + 1 ELSE p0
        a   == DigitRun(s, p)
    IN  IF a = 0 THEN NaN ELSE Num(neg, DigitsValue(s, p, a), 0)

\* Number::toString, as used by template literals and string concatenation.
\* With k digits and the decimal point after digit n: plain digits when
\* k <= n <= 21, a decimal point inside when 0 < n < k, leading "0.00" when
\* -6 < n <= 0, and exponent notation otherwise.
NumberToString(v) ==
    IF v.nan THEN <<"N", "a", "N">>
    ELSE IF v.m = 0 THEN <<"0">>
    ELSE
      LET ds  == IntToString(v.m)
          k   == Len(ds)
          n   == k + v.e
          ex  == n - 1
          exs == (IF ex < 0 THEN <<"e", "-">> ELSE <<"e", "+">>)
                   \o IntToString(IF ex < 0 THEN 0 - ex ELSE ex)
          body ==
            IF k <= n /\ n <= 21 THEN ds \o Zeros(n - k)
            ELSE IF 0 < n /\ n <= 21
              THEN SubSeq(ds, 1, n) \o <<".">> \o SubSeq(ds, n + 1, k)
            ELSE IF -6 < n /\ n <= 0 THEN <<"0", ".">> \o Zeros(0 - n) \o ds
            ELSE IF k = 1 THEN ds \o exs
            ELSE <<ds[1], ".">> \o SubSeq(ds, 2, k) \o exs
      IN (IF v.neg THEN <<"-">> ELSE <<>>) \o body

(***************************************************************************)
(* <Input type="number">: the value handed to onChange is the typed text    *)
(* when that is a valid floating-point number, and "" otherwise.           *)
(***************************************************************************)
IsValidFloatingPointNumber(s) ==
    LET p    == IF CharAt(s, 1) = "-" THEN 2 ELSE 1
        a    == DigitRun(s, p)
        dot  == CharAt(s, p + a) = "."
        b    == IF dot THEN DigitRun(s, p + a + 1) ELSE 0
        q    == p + a + (IF dot THEN 1 + b ELSE 0)
        esgn == CharAt(s, q + 1) \in {"-", "+"}
        r    == q + 1 + (IF esgn THEN 1 ELSE 0)
        c    == DigitRun(s, r)
    IN  /\ a + b > 0
        /\ dot => b > 0
        /\ \/ q = Len(s) + 1
           \/ /\ CharAt(s, q) \in {"e", "E"}
              /\ c > 0
              /\ r + c = Len(s) + 1

NumberInputValue(typed) ==
    IF IsValidFloatingPointNumber(typed) THEN typed ELSE <<>>

(***************************************************************************)
(* Component state                                                         *)
(***************************************************************************)
VARIABLES
    variant,        \* "networked" (lines 34-491) or "legacy" (lines 522-762)
    axisValues,     \* useState<AxisValues>: the x, y, z last passed to
                    \* setAxisValues
    rendered,       \* the axisValues of the latest render, which the
                    \* handlers close over and the sliders display
    selectedError,  \* useState<string>
    selectedAxis,   \* useState<string>
    vehicleCode,    \* useState<string>
    vehicleKey,     \* useState<string>
    manualValue,    \* useState<string>
    weight,         \* useState<string>
    toasts,         \* every call of toast(...), in order
    requests,       \* every api.post(...), in order, with its completion status
    count,          \* history: handler runs by outcome
    last            \* history: the latest handler run, its inputs and outcome

vars == <<variant, axisValues, rendered, selectedError, selectedAxis, vehicleCode,
          vehicleKey, manualValue, weight, toasts, requests, count, last>>

form == <<selectedError, selectedAxis, vehicleCode, vehicleKey, manualValue,
          weight>>

\* Ceilings of the two variants.
MAX_NETWORKED == 1000000
MAX_LEGACY == 100
VEHICLE_MAX == 1000000

MAX(v) == IF v = "networked" THEN MAX_NETWORKED ELSE MAX_LEGACY

\* Mutant: the list carries a sixth entry.
ERROR_TYPES_WithUnknown ==
    {"calibration", "positioning", "sensor", "communication", "mechanical",
     "unknown"}

\* const ERROR_TYPES: the values of the five entries.
ERROR_TYPES ==
    {"calibration", "positioning", "sensor", "communication", "mechanical"}

AXIS_OPTIONS == {"x", "y", "z"}

\* Number of handler runs the model follows.
MaxSubmits == 2

Zero == Num(FALSE, 0, 0)
Fifty == Num(FALSE, 5, 1)

InitialAxisValues(v) ==
    IF v = "networked" THEN [a \in AXIS_OPTIONS |-> Zero]
    ELSE [a \in AXIS_OPTIONS |-> Fifty]

NoRun ==
    [op |-> "none", sel |-> "", raw |-> <<>>, key |-> <<>>, value |-> NaN,
     verdict |-> ""]

Run(op, sel, raw, key, value, verdict) ==
    [op |-> op, sel |-> sel, raw |-> raw, key |-> key, value |-> value,
     verdict |-> verdict]

Total == count.dispatched + count.local + count.rejected

Counted(field) == [count EXCEPT ![field] = @ + 1]

Init ==
    /\ variant \in {"networked", "legacy"}
    /\ axisValues = InitialAxisValues(variant)
    /\ rendered = axisValues
    /\ selectedError = ""
    /\ selectedAxis = ""
    /\ vehicleCode = <<>>
    /\ vehicleKey = <<>>
    /\ manualValue = <<>>
    /\ weight = <<>>
    /\ toasts = <<>>
    /\ requests = <<>>
    /\ count = [dispatched |-> 0, local |-> 0, rejected |-> 0]
    /\ last = NoRun

(***************************************************************************)
(* Notifier and dispatcher                                                 *)
(***************************************************************************)
\* toast({title, description, variant}); req is the request whose completion
\* raised it (0 for a toast raised by a handler itself).
Toast(title, description, kind, req) ==
    [title |-> title, description |-> description, variant |-> kind,
     req |-> req]

\* One api.post(path, body) and what its continuation closes over (axis,
\* value, code); before is history: the value displayed for that axis in the
\* render the command was issued from.
Request(kind, path, body, axis, value, code) ==
    [kind |-> kind, path |-> path, body |-> body, status |-> "pending",
     axis |-> axis, value |-> value, code |-> code,
     before |-> IF axis \in DOMAIN rendered THEN rendered[axis] ELSE NaN]

\* Mutant: a command whose request is already in flight is not sent again.
sendIndividualAxisDataDeduplicated(axis, value) ==
    LET path == <<"/">> \o toUpperCase(<<axis>>) \o <<"/">>
                    \o NumberToString(value)
    IN  IF \E id \in 1..Len(requests) :
              requests[id].path = path /\ requests[id].status = "pending"
        THEN requests
        ELSE Append(requests, Request("axis", path, <<>>, axis, value, <<>>))

\* sendIndividualAxisData up to its await: api.post(`/${AXIS}/${value}`).
sendIndividualAxisData(axis, value) ==
    Append(requests,
           Request("axis",
                   <<"/">> \o toUpperCase(<<axis>>) \o <<"/">>
                       \o NumberToString(value),
                   <<>>, axis, value, <<>>))

\* sendWeightData up to its await: api.post("/weight", {weight: weightValue}).
sendWeightData(weightValue) ==
    Append(requests,
           Request("weight", <<"/", "w", "e", "i", "g", "h", "t">>,
                   <<weightValue>>, "", weightValue, <<>>))

\* sendVehicleCode up to its await:
\* api.post("/vehicle/" + data.vehicleCode + "/" + data.vehicleKey).
sendVehicleCode(data) ==
    Append(requests,
           Request("vehicle",
                   <<"/", "v", "e", "h", "i", "c", "l", "e", "/">>
                       \o data.vehicleCode \o <<"/">> \o data.vehicleKey,
                   <<>>, "", NaN, data.vehicleCode))

\* sendErrorData: no request, one toast.
sendErrorData(errorType) ==
    Append(toasts, Toast("Error reported", "Error type: " \o errorType,
                         "default", 0))

\* sendAxisData of the legacy variant: a mock, no request, one toast.
sendAxisDataLegacy(data, source) ==
    Append(toasts,
           Toast("Data sent successfully",
                 "X: " \o Text(NumberToString(data["x"]))
                    \o ", Y: " \o Text(NumberToString(data["y"]))
                    \o ", Z: " \o Text(NumberToString(data["z"]))
                    \o " (via " \o source \o ")",
                 "default", 0))

\* The toast after the await of request r resolved.
SuccessToast(r, id) ==
    CASE r.kind = "axis" ->
           Toast("Data sent successfully",
                 Text(toUpperCase(<<r.axis>>)) \o ": "
                    \o Text(NumberToString(r.value)),
                 "default", id)
      [] r.kind = "weight" ->
           Toast("Weight data sent",
                 "Weight: " \o Text(NumberToString(r.value)), "default", id)
      [] r.kind = "vehicle" ->
           Toast("Data sent successfully",
                 "Vehicle connected: " \o Text(r.code), "default", id)

\* The toast of the catch block when the await of request r rejected.
FailureToast(r, id) ==
    CASE r.kind = "axis" ->
           Toast("Error sending data",
                 "Failed to send " \o r.axis \o " axis value",
                 "destructive", id)
      [] r.kind = "weight" ->
           Toast("Error sending weight", "Failed to send weight data",
                 "destructive", id)
      [] r.kind = "vehicle" ->
           Toast("Error sending data", "Failed to connect vehicle",
                 "destructive", id)

\* What the await of request id does when the post resolves / rejects.
AfterResolve(id) == Append(toasts, SuccessToast(requests[id], id))

\* Mutant: the catch block only logs.
AfterRejectSilent(id) == toasts

AfterReject(id) == Append(toasts, FailureToast(requests[id], id))

PostResolves(id) ==
    /\ id \in 1..Len(requests)
    /\ requests[id].status = "pending"
    /\ requests' = [requests EXCEPT ![id].status = "resolved"]
    /\ toasts' = AfterResolve(id)
    /\ last' = Run("response", "", <<>>, <<>>, NaN, "resolved")
    /\ UNCHANGED <<variant, axisValues, rendered, form, count>>

PostRejects(id) ==
    /\ id \in 1..Len(requests)
    /\ requests[id].status = "pending"
    /\ requests' = [requests EXCEPT ![id].status = "rejected"]
    /\ toasts' = AfterReject(id)
    /\ last' = Run("response", "", <<>>, <<>>, NaN, "rejected")
    /\ UNCHANGED <<variant, axisValues, rendered, form, count>>

\* The component function runs again with the pending setAxisValues applied:
\* from here on the handlers close over the new axisValues (lines 35,
\* 178-182).  An update made by a slider's change handler is rendered some
\* time after the handler returns, an update made by a click handler before
\* the next event is handled.
Render ==
    /\ rendered # axisValues
    /\ rendered' = axisValues
    /\ UNCHANGED <<variant, axisValues, form, toasts, requests, count, last>>

(***************************************************************************)
(* Form fields.  Typing is followed only while a handler run remains: what  *)
(* is typed after the last followed run is read by nothing.                *)
(***************************************************************************)
\* <Select value={selectedAxis} onValueChange={setSelectedAxis}>
SetSelectedAxis(options) ==
    /\ Total < MaxSubmits
    /\ \E a \in options : selectedAxis' = a
    /\ UNCHANGED <<last, variant, axisValues, rendered, selectedError, vehicleCode, vehicleKey,
                   manualValue, weight, toasts, requests, count>>

\* <Input type="number" onChange={(e) => setManualValue(e.target.value)}>
SetManualValue(texts) ==
    /\ Total < MaxSubmits
    /\ \E typed \in texts : manualValue' = NumberInputValue(typed)
    /\ UNCHANGED <<last, variant, axisValues, rendered, selectedError, selectedAxis,
                   vehicleCode, vehicleKey, weight, toasts, requests, count>>

\* <Input type="number" onChange={(e) => setVehicleCode(e.target.value)}>
SetVehicleCode(texts) ==
    /\ Total < MaxSubmits
    /\ variant = "networked"
    /\ \E typed \in texts : vehicleCode' = NumberInputValue(typed)
    /\ UNCHANGED <<last, variant, axisValues, rendered, selectedError, selectedAxis,
                   vehicleKey, manualValue, weight, toasts, requests, count>>

\* <Input type="text" onChange={(e) => setVehicleKey(e.target.value)}>
SetVehicleKey(texts) ==
    /\ Total < MaxSubmits
    /\ variant = "networked"
    /\ \E typed \in texts : vehicleKey' = typed
    /\ UNCHANGED <<last, variant, axisValues, rendered, selectedError, selectedAxis,
                   vehicleCode, manualValue, weight, toasts, requests, count>>

\* <Input type="number" onChange={(e) => setWeight(e.target.value)}>
SetWeight(texts) ==
    /\ Total < MaxSubmits
    /\ variant = "networked"
    /\ \E typed \in texts : weight' = NumberInputValue(typed)
    /\ UNCHANGED <<last, variant, axisValues, rendered, selectedError, selectedAxis,
                   vehicleCode, vehicleKey, manualValue, toasts, requests,
                   count>>

\* <Select value={selectedError} onValueChange={setSelectedError}>
SetSelectedError(options) ==
    /\ Total < MaxSubmits
    /\ \E e \in options : selectedError' = e
    /\ UNCHANGED <<last, variant, axisValues, rendered, selectedAxis, vehicleCode, vehicleKey,
                   manualValue, weight, toasts, requests, count>>

(***************************************************************************)
(* Validation, as the handlers' early returns decide it                    *)
(***************************************************************************)
\* Mutant: the comparison with the ceiling is missing.
ManualCheckNoCeiling(axis, raw, max) ==
    IF axis = "" \/ raw = <<>> THEN "missing"
    ELSE LET value == parseFloat(raw)
         IN  IF isNaN(value) \/ LessThanInt(value, 0)
             THEN "range" ELSE "ok"

\* Mutant: the ceiling itself is refused (>= for >).
ManualCheckExclusiveMax(axis, raw, max) ==
    IF axis = "" \/ raw = <<>> THEN "missing"
    ELSE LET value == parseFloat(raw)
         IN  IF isNaN(value) \/ LessThanInt(value, 0)
                  \/ ~LessThanInt(value, max)
             THEN "range" ELSE "ok"

\* handleManualSubmit: "missing", "range" or "ok".
ManualCheck(axis, raw, max) ==
    IF axis = "" \/ raw = <<>> THEN "missing"
    ELSE LET value == parseFloat(raw)
         IN  IF isNaN(value) \/ LessThanInt(value, 0)
                  \/ GreaterThanInt(value, max)
             THEN "range" ELSE "ok"

\* Mutant: the code is parsed and range-checked before the key is looked at.
VehicleCheckCodeBeforeKey(code, key) ==
    IF code = <<>> THEN "code"
    ELSE LET value == parseInt(code)
         IN  IF isNaN(value) \/ LessThanInt(value, 0)
                  \/ GreaterThanInt(value, VEHICLE_MAX)
             THEN "invalid"
             ELSE IF key = <<>> THEN "key" ELSE "ok"

\* handleVehicleCodeFetch: "code", "key", "invalid" or "ok".
VehicleCheck(code, key) ==
    IF code = <<>> THEN "code"
    ELSE IF key = <<>> THEN "key"
    ELSE LET value == parseInt(code)
         IN  IF isNaN(value) \/ LessThanInt(value, 0)
                  \/ GreaterThanInt(value, VEHICLE_MAX)
             THEN "invalid" ELSE "ok"

\* Mutant: zero passes (< for <=).
WeightCheckAcceptsZero(raw) ==
    IF raw = <<>> THEN "missing"
    ELSE LET weightValue == parseFloat(raw)
         IN  IF isNaN(weightValue) \/ LessThanInt(weightValue, 0)
             THEN "invalid" ELSE "ok"

\* handleWeightSubmit: "missing", "invalid" or "ok".
WeightCheck(raw) ==
    IF raw = <<>> THEN "missing"
    ELSE LET weightValue == parseFloat(raw)
         IN  IF isNaN(weightValue) \/ LessOrEqualInt(weightValue, 0)
             THEN "invalid" ELSE "ok"

\* A handler's early return: one destructive toast and nothing else.
Reject(op, sel, raw, key, title, description) ==
    /\ toasts' = Append(toasts, Toast(title, description, "destructive", 0))
    /\ count' = Counted("rejected")
    /\ last' = Run(op, sel, raw, key, NaN, "rejected")
    /\ UNCHANGED <<variant, axisValues, rendered, form, requests>>

(***************************************************************************)
(* Handlers of the networked variant                                       *)
(***************************************************************************)
\* Values the <Slider min={0} max={max} step={0.1}> can report.
SliderPositions ==
    {Zero, Num(FALSE, 75, -1), Num(FALSE, 1, 2), Num(FALSE, 1, 6)}

SliderRange(max) == {v \in SliderPositions : ~GreaterThanInt(v, max)}

handleSliderChange(axis, value) ==
    /\ variant = "networked"
    /\ Total < MaxSubmits
    /\ axisValues' = [rendered EXCEPT ![axis] = value]
    /\ requests' = sendIndividualAxisData(axis, value)
    /\ count' = Counted("dispatched")
    /\ last' = Run("slider", axis, <<>>, <<>>, value, "accepted")
    /\ UNCHANGED <<variant, rendered, form, toasts>>

\* Mutant: the out-of-range branch lacks its return and falls through to the
\* update and the send.
handleManualSubmitNoReturn ==
    /\ variant = "networked"
    /\ Total < MaxSubmits
    /\ LET check == ManualCheck(selectedAxis, manualValue, MAX_NETWORKED)
           value == parseFloat(manualValue)
       IN  CASE check = "missing" ->
                  Reject("manual", selectedAxis, manualValue, <<>>,
                         "Invalid input",
                         "Please select an axis and enter a value")
             [] check = "range" ->
                  /\ toasts' = Append(toasts,
                        Toast("Invalid value",
                              "Please enter a value between 0 and 1000000",
                              "destructive", 0))
                  /\ axisValues' = [rendered EXCEPT ![selectedAxis] = value]
                  /\ rendered' = axisValues'
                  /\ requests' = sendIndividualAxisData(selectedAxis, value)
                  /\ manualValue' = <<>>
                  /\ selectedAxis' = ""
                  /\ count' = Counted("rejected")
                  /\ last' = Run("manual", selectedAxis, manualValue, <<>>,
                                 NaN, "rejected")
                  /\ UNCHANGED <<variant, selectedError, vehicleCode,
                                 vehicleKey, weight>>
             [] check = "ok" ->
                  /\ axisValues' = [rendered EXCEPT ![selectedAxis] = value]
                  /\ rendered' = axisValues'
                  /\ requests' = sendIndividualAxisData(selectedAxis, value)
                  /\ manualValue' = <<>>
                  /\ selectedAxis' = ""
                  /\ count' = Counted("dispatched")
                  /\ last' = Run("manual", selectedAxis, manualValue, <<>>,
                                 value, "accepted")
                  /\ UNCHANGED <<variant, selectedError, vehicleCode,
                                 vehicleKey, weight, toasts>>

handleManualSubmit ==
    /\ variant = "networked"
    /\ Total < MaxSubmits
    /\ LET check == ManualCheck(selectedAxis, manualValue, MAX_NETWORKED)
           value == parseFloat(manualValue)
       IN  CASE check = "missing" ->
                  Reject("manual", selectedAxis, manualValue, <<>>,
                         "Invalid input",
                         "Please select an axis and enter a value")
             [] check = "range" ->
                  Reject("manual", selectedAxis, manualValue, <<>>,
                         "Invalid value",
                         "Please enter a value between 0 and 1000000")
             [] check = "ok" ->
                  /\ axisValues' = [rendered EXCEPT ![selectedAxis] = value]
                  /\ rendered' = axisValues'
                  /\ requests' = sendIndividualAxisData(selectedAxis, value)
                  /\ manualValue' = <<>>
                  /\ selectedAxis' = ""
                  /\ count' = Counted("dispatched")
                  /\ last' = Run("manual", selectedAxis, manualValue, <<>>,
                                 value, "accepted")
                  /\ UNCHANGED <<variant, selectedError, vehicleCode,
                                 vehicleKey, weight, toasts>>

handleVehicleCodeFetch ==
    /\ variant = "networked"
    /\ Total < MaxSubmits
    /\ LET check == VehicleCheck(vehicleCode, vehicleKey)
       IN  CASE check = "code" ->
                  Reject("vehicle", "", vehicleCode, vehicleKey,
                         "Invalid input", "Please enter vehicle Code")
             [] check = "key" ->
                  Reject("vehicle", "", vehicleCode, vehicleKey,
                         "Invalid input", "Please enter vehicle Key")
             [] check = "invalid" ->
                  Reject("vehicle", "", vehicleCode, vehicleKey,
                         "Invalid value", "Please enter a valid vehicle code")
             [] check = "ok" ->
                  /\ requests' = sendVehicleCode(
                        [vehicleCode |-> vehicleCode, vehicleKey |-> vehicleKey])
                  /\ count' = Counted("dispatched")
                  /\ last' = Run("vehicle", "", vehicleCode, vehicleKey,
                                 parseInt(vehicleCode), "accepted")
                  /\ UNCHANGED <<variant, axisValues, rendered, form, toasts>>

handleWeightSubmit ==
    /\ variant = "networked"
    /\ Total < MaxSubmits
    /\ LET check == WeightCheck(weight)
           weightValue == parseFloat(weight)
       IN  CASE check = "missing" ->
                  Reject("weight", "", weight, <<>>,
                         "Invalid input", "Please enter a weight value")
             [] check = "invalid" ->
                  Reject("weight", "", weight, <<>>,
                         "Invalid weight", "Please enter a valid weight value")
             [] check = "ok" ->
                  /\ requests' = sendWeightData(weightValue)
                  /\ weight' = <<>>
                  /\ count' = Counted("dispatched")
                  /\ last' = Run("weight", "", weight, <<>>, weightValue,
                                 "accepted")
                  /\ UNCHANGED <<variant, axisValues, rendered, selectedError,
                                 selectedAxis, vehicleCode, vehicleKey,
                                 manualValue, toasts>>

\* Mutant: the selection is not cleared after the report.
handleErrorSubmitKeepsSelection ==
    /\ Total < MaxSubmits
    /\ IF selectedError = ""
       THEN Reject("error", selectedError, <<>>, <<>>,
                   "No error selected", "Please select an error type")
       ELSE /\ toasts' = sendErrorData(selectedError)
            /\ count' = Counted("local")
            /\ last' = Run("error", selectedError, <<>>, <<>>, NaN, "accepted")
            /\ UNCHANGED <<variant, axisValues, rendered, form, requests>>

\* The same code in both variants (lines 270-282 and 598-610).
handleErrorSubmit ==
    /\ Total < MaxSubmits
    /\ IF selectedError = ""
       THEN Reject("error", selectedError, <<>>, <<>>,
                   "No error selected", "Please select an error type")
       ELSE /\ toasts' = sendErrorData(selectedError)
            /\ selectedError' = ""
            /\ count' = Counted("local")
            /\ last' = Run("error", selectedError, <<>>, <<>>, NaN, "accepted")
            /\ UNCHANGED <<variant, axisValues, rendered, selectedAxis, vehicleCode,
                           vehicleKey, manualValue, weight, requests>>

(***************************************************************************)
(* Handlers of the legacy variant                                          *)
(***************************************************************************)
handleSliderChangeLegacy(axis, value) ==
    /\ variant = "legacy"
    /\ Total < MaxSubmits
    /\ LET newValues == [rendered EXCEPT ![axis] = value]
       IN  /\ axisValues' = newValues
           /\ toasts' = sendAxisDataLegacy(newValues, "slider")
    /\ count' = Counted("local")
    /\ last' = Run("slider", axis, <<>>, <<>>, value, "accepted")
    /\ UNCHANGED <<variant, rendered, form, requests>>

handleManualSubmitLegacy ==
    /\ variant = "legacy"
    /\ Total < MaxSubmits
    /\ LET check == ManualCheck(selectedAxis, manualValue, MAX_LEGACY)
           value == parseFloat(manualValue)
           newValues == [rendered EXCEPT ![selectedAxis] = value]
       IN  CASE check = "missing" ->
                  Reject("manual", selectedAxis, manualValue, <<>>,
                         "Invalid input",
                         "Please select an axis and enter a value")
             [] check = "range" ->
                  Reject("manual", selectedAxis, manualValue, <<>>,
                         "Invalid value",
                         "Please enter a value between 0 and 100")
             [] check = "ok" ->
                  /\ axisValues' = newValues
                  /\ rendered' = newValues
                  /\ toasts' = sendAxisDataLegacy(newValues, "manual")
                  /\ manualValue' = <<>>
                  /\ selectedAxis' = ""
                  /\ count' = Counted("local")
                  /\ last' = Run("manual", selectedAxis, manualValue, <<>>,
                                 value, "accepted")
                  /\ UNCHANGED <<variant, selectedError, vehicleCode,
                                 vehicleKey, weight, requests>>

(***************************************************************************)
(* The component: every event the user or the network can raise            *)
(***************************************************************************)
\* Texts typed into the fields in the specification of the whole component.
CoreManualTexts == {<<"5">>, <<"2", "0", "0", "0", "0", "0", "0">>}

CoreCodeTexts == {<<"1", "2">>}

CoreKeyTexts == {<<"k">>}

CoreWeightTexts == {<<"5">>, <<"-", "5">>}

CoreErrors == {"sensor"}

CoreAxes == {"x"}

CoreSlider == {Num(FALSE, 75, -1)}

Next ==
    \/ SetSelectedAxis({"x"})
    \/ SetManualValue(CoreManualTexts)
    \/ SetVehicleCode(CoreCodeTexts)
    \/ SetVehicleKey(CoreKeyTexts)
    \/ SetWeight(CoreWeightTexts)
    \/ SetSelectedError(CoreErrors)
    \/ \E axis \in CoreAxes, value \in CoreSlider :
          handleSliderChange(axis, value)
    \/ handleManualSubmit
    \/ handleVehicleCodeFetch
    \/ handleWeightSubmit
    \/ handleErrorSubmit
    \/ \E axis \in CoreAxes, value \in CoreSlider :
          handleSliderChangeLegacy(axis, value)
    \/ handleManualSubmitLegacy
    \/ \E id \in 1..MaxSubmits : PostResolves(id)
    \/ \E id \in 1..MaxSubmits : PostRejects(id)
    \/ Render

Spec == Init /\ [][Next]_vars

(***************************************************************************)
(* One panel at a time, from a form that has been filled in: the field     *)
(* contents are what the setters above can leave in the fields.            *)
(***************************************************************************)
ManualTexts ==
    { <<>>, <<"0">>, <<"5">>, <<"-", "5">>, <<"-", "0">>, <<".", "5">>,
      <<"1", "0", "0">>, <<"1", "0", "0", ".", "5">>, <<"1", "0", "1">>,
      <<"5", "0", "0", "0", "0", "0">>,
      <<"1", "0", "0", "0", "0", "0", "0">>,
      <<"1", "0", "0", "0", "0", "0", "0", ".", "5">>,
      <<"1", "0", "0", "0", "0", "0", "1">>,
      <<"2", "0", "0", "0", "0", "0", "0">>,
      <<"1", "e", "-", "7">>, <<"1", "e", "6">>, <<"1", "e", "7">>,
      <<"5", "x">>, <<"a", "b">> }

CodeTexts ==
    { <<>>, <<"0">>, <<"1", "2">>, <<"1", "2", "3">>, <<"-", "1">>,
      <<"-", "0">>, <<"1", "2", ".", "5">>, <<".", "5">>,
      <<"1", "0", "0", "0", "0", "0", "0">>,
      <<"1", "0", "0", "0", "0", "0", "1">>,
      <<"1", "e", "3">>, <<"1", "e", "7">>, <<"a", "b">> }

KeyTexts == { <<>>, <<"k">>, <<"a", "/", "b">>, <<"/">> }

WeightTexts ==
    { <<>>, <<"0">>, <<"5">>, <<"-", "5">>, <<"-", "0">>, <<"0", ".", "0">>,
      <<"0", ".", "0", "1">>, <<"2", ".", "5">>, <<"1", "e", "-", "7">>,
      <<"1", "e", "7">>, <<"-", "1", "e", "-", "7">>, <<"a", "b">> }

InitManual ==
    /\ variant \in {"networked", "legacy"}
    /\ axisValues = InitialAxisValues(variant)
    /\ rendered = axisValues
    /\ selectedError = ""
    /\ selectedAxis \in AXIS_OPTIONS \cup {""}
    /\ vehicleCode = <<>>
    /\ vehicleKey = <<>>
    /\ manualValue \in {NumberInputValue(typed) : typed \in ManualTexts}
    /\ weight = <<>>
    /\ toasts = <<>>
    /\ requests = <<>>
    /\ count = [dispatched |-> 0, local |-> 0, rejected |-> 0]
    /\ last = NoRun

NextManual ==
    \/ handleManualSubmit
    \/ handleManualSubmitLegacy
    \/ \E id \in 1..MaxSubmits : PostResolves(id)
    \/ \E id \in 1..MaxSubmits : PostRejects(id)

SpecManual == InitManual /\ [][NextManual]_vars

InitVehicle ==
    /\ variant = "networked"
    /\ axisValues = InitialAxisValues(variant)
    /\ rendered = axisValues
    /\ selectedError = ""
    /\ selectedAxis = ""
    /\ vehicleCode \in {NumberInputValue(typed) : typed \in CodeTexts}
    /\ vehicleKey \in KeyTexts
    /\ manualValue = <<>>
    /\ weight = <<>>
    /\ toasts = <<>>
    /\ requests = <<>>
    /\ count = [dispatched |-> 0, local |-> 0, rejected |-> 0]
    /\ last = NoRun

NextVehicle ==
    \/ handleVehicleCodeFetch
    \/ \E id \in 1..MaxSubmits : PostResolves(id)
    \/ \E id \in 1..MaxSubmits : PostRejects(id)

SpecVehicle == InitVehicle /\ [][NextVehicle]_vars

NextWeight ==
    \/ SetWeight(WeightTexts)
    \/ handleWeightSubmit
    \/ \E id \in 1..MaxSubmits : PostResolves(id)
    \/ \E id \in 1..MaxSubmits : PostRejects(id)

InitWeight == Init /\ variant = "networked"

SpecWeight == InitWeight /\ [][NextWeight]_vars

\* The axis panel alone, in both variants: the sliders, the axis <Select>,
\* the manual field with texts at and around both ceilings, and the responses.
AxisTexts ==
    { <<"1", "0", "0">>, <<"1", "0", "0", "0", "0", "0", "0">>,
      <<"1", "0", "0", "0", "0", "0", "1">>, <<"-", "1">> }

AxisAxes == {"x", "z"}

\* The two ends of the slider's track.
SliderEnds(max) == {v \in SliderRange(max) : v = Zero \/ ~LessThanInt(v, max)}

NextAxis ==
    \/ SetSelectedAxis(AxisAxes)
    \/ SetManualValue(AxisTexts)
    \/ \E axis \in AxisAxes, value \in SliderEnds(MAX_NETWORKED) :
          handleSliderChange(axis, value)
    \/ handleManualSubmit
    \/ \E axis \in AxisAxes, value \in SliderEnds(MAX_LEGACY) :
          handleSliderChangeLegacy(axis, value)
    \/ handleManualSubmitLegacy
    \/ \E id \in 1..MaxSubmits : PostResolves(id)
    \/ \E id \in 1..MaxSubmits : PostRejects(id)
    \/ Render

SpecAxis == Init /\ [][NextAxis]_vars

\* The error panel alone, in both variants: the <Select> offers one
\* <SelectItem> per entry of ERROR_TYPES and nothing else.
NextError ==
    \/ SetSelectedError(ERROR_TYPES)
    \/ handleErrorSubmit

SpecError == Init /\ [][NextError]_vars

\* The dispatching handlers alone, from a form that has been filled in, with
\* every request eventually completing, one way or the other.
InitFilled ==
    /\ variant = "networked"
    /\ axisValues = InitialAxisValues(variant)
    /\ rendered = axisValues
    /\ selectedError = ""
    /\ selectedAxis = "x"
    /\ vehicleCode = <<"1", "2">>
    /\ vehicleKey = <<"k">>
    /\ manualValue = <<"5">>
    /\ weight = <<"5">>
    /\ toasts = <<>>
    /\ requests = <<>>
    /\ count = [dispatched |-> 0, local |-> 0, rejected |-> 0]
    /\ last = NoRun

NextDispatch ==
    \/ \E axis \in CoreAxes, value \in CoreSlider :
          handleSliderChange(axis, value)
    \/ handleManualSubmit
    \/ handleVehicleCodeFetch
    \/ handleWeightSubmit
    \/ \E id \in 1..MaxSubmits : PostResolves(id)
    \/ \E id \in 1..MaxSubmits : PostRejects(id)
    \/ Render

FairSpec ==
    /\ InitFilled
    /\ [][NextDispatch]_vars
    /\ \A id \in 1..MaxSubmits : WF_vars(PostResolves(id) \/ PostRejects(id))

(***************************************************************************)
(* Vocabulary of the properties                                            *)
(***************************************************************************)
LastToast == toasts[Len(toasts)]

LastRequest == requests[Len(requests)]

\* The step is one run of the handler op.
RunOf(op) == Total' = Total + 1 /\ last'.op = op

\* The step appends exactly one toast / exactly one pending request.
OneToast == Len(toasts') = Len(toasts) + 1 /\ SubSeq(toasts', 1, Len(toasts)) = toasts

OneRequest ==
    /\ Len(requests') = Len(requests) + 1
    /\ SubSeq(requests', 1, Len(requests)) = requests
    /\ requests'[Len(requests')].status = "pending"

\* The reasons each handler gives when it rejects.
Reasons(op) ==
    CASE op = "manual" ->
           {"Please select an axis and enter a value",
            "Please enter a value between 0 and 1000000",
            "Please enter a value between 0 and 100"}
      [] op = "vehicle" ->
           {"Please enter vehicle Code", "Please enter vehicle Key",
            "Please enter a valid vehicle code"}
      [] op = "weight" ->
           {"Please enter a weight value", "Please enter a valid weight value"}
      [] op = "error" -> {"Please select an error type"}
      [] OTHER -> {}

\* 0 <= v <= max, for a number v.
InRange(v, max) == ~v.nan /\ ~LessThanInt(v, 0) /\ ~GreaterThanInt(v, max)

\* The segments of a path: the pieces between its "/" separators, the empty
\* piece before the leading "/" left out.
RECURSIVE Split(_, _)
Split(path, piece) ==
    IF path = <<>> THEN <<piece>>
    ELSE IF Head(path) = "/" THEN <<piece>> \o Split(Tail(path), <<>>)
    ELSE Split(Tail(path), Append(piece, Head(path)))

Segments(path) ==
    IF path # <<>> /\ Head(path) = "/" THEN Split(Tail(path), <<>>)
    ELSE Split(path, <<>>)

(***************************************************************************)
(* C1  A submission the validator rejects sends nothing and raises one     *)
(*     destructive notification carrying the handler's reason; the number  *)
(*     of requests sent is always the number of accepted submissions of    *)
(*     network-backed commands.                                            *)
(***************************************************************************)
C1_RejectionNeverDispatches ==
    /\ [](Len(requests) = count.dispatched)
    /\ [][ (Total' = Total + 1 /\ last'.verdict = "rejected") =>
             /\ requests' = requests
             /\ OneToast
             /\ toasts'[Len(toasts')].variant = "destructive"
             /\ toasts'[Len(toasts')].req = 0
             /\ toasts'[Len(toasts')].description \in Reasons(last'.op)
             /\ axisValues' = axisValues ]_vars

\* The entry 2000000 for an axis was rejected as out of range: the reason was
\* notified and nothing was sent.
C1_Witness ==
    /\ last.op = "manual"
    /\ last.verdict = "rejected"
    /\ last.sel = "x"
    /\ last.raw = <<"2", "0", "0", "0", "0", "0", "0">>
    /\ LastToast.description = "Please enter a value between 0 and 1000000"
    /\ requests = <<>>

(***************************************************************************)
(* C2  The displayed axis values change only when a dispatch has reported  *)
(*     Success: while the latest command for an axis is still in flight,   *)
(*     or after it failed, the axis shows the value it showed before that  *)
(*     command was issued.                                                 *)
(***************************************************************************)
LatestFor(axis, id) ==
    /\ requests[id].kind = "axis"
    /\ requests[id].axis = axis
    /\ \A later \in (id + 1)..Len(requests) :
          ~(requests[later].kind = "axis" /\ requests[later].axis = axis)

C2_ViewStateOnlyAfterSuccess ==
    \A id \in 1..Len(requests) : \A axis \in AXIS_OPTIONS :
        (LatestFor(axis, id) /\ requests[id].status # "resolved") =>
            axisValues[axis] = requests[id].before

(***************************************************************************)
(* C3  With an axis selected and a non-empty value, handleManualSubmit     *)
(*     accepts the value v (sets the axis to v and dispatches it) exactly  *)
(*     when 0 <= v <= MAX of the variant, 0 and MAX included; otherwise it *)
(*     rejects it as out of range, changes no axis and dispatches nothing. *)
(***************************************************************************)
MaxText(v) ==
    IF v = "networked" THEN <<"1", "0", "0", "0", "0", "0", "0">>
    ELSE <<"1", "0", "0">>

OutOfRangeText(v) ==
    IF v = "networked" THEN "Please enter a value between 0 and 1000000"
    ELSE "Please enter a value between 0 and 100"

C3_ManualAcceptedIffInRange ==
    [][ (RunOf("manual") /\ selectedAxis # "" /\ manualValue # <<>>) =>
          LET v == parseFloat(manualValue)
          IN  /\ manualValue \in {<<"0">>, MaxText(variant)} =>
                    last'.verdict = "accepted"
              /\ manualValue = <<"2", "0", "0", "0", "0", "0", "0">> =>
                    last'.verdict = "rejected"
              /\ IF InRange(v, MAX(variant))
                 THEN /\ last'.verdict = "accepted"
                      /\ axisValues' = [axisValues EXCEPT ![selectedAxis] = v]
                      /\ IF variant = "networked"
                         THEN /\ OneRequest
                              /\ requests'[Len(requests')].axis = selectedAxis
                              /\ requests'[Len(requests')].value = v
                              /\ toasts' = toasts
                         ELSE /\ requests' = requests
                              /\ OneToast
                              /\ toasts'[Len(toasts')].title
                                    = "Data sent successfully"
                 ELSE /\ last'.verdict = "rejected"
                      /\ axisValues' = axisValues
                      /\ requests' = requests
                      /\ OneToast
                      /\ toasts'[Len(toasts')].title = "Invalid value"
                      /\ toasts'[Len(toasts')].description
                            = OutOfRangeText(variant) ]_vars

\* The ceiling 1000000 itself was entered for an axis, accepted and sent.
C3_Witness ==
    /\ variant = "networked"
    /\ last.op = "manual"
    /\ last.verdict = "accepted"
    /\ last.raw = MaxText("networked")
    /\ axisValues[last.sel] = Num(FALSE, 1, 6)
    /\ Len(requests) = 1

(***************************************************************************)
(* C4  With a non-empty key, handleVehicleCodeFetch accepts the code c     *)
(*     exactly when c is an integer with 0 <= c <= 1000000, and the code   *)
(*     in the request is that integer.                                     *)
(***************************************************************************)
IsInteger(v) == ~v.nan /\ v.e >= 0

C4_VehicleAcceptedIffIntegerInRange ==
    [][ (RunOf("vehicle") /\ vehicleCode # <<>> /\ vehicleKey # <<>>) =>
          LET c == parseFloat(vehicleCode)
          IN  IF IsInteger(c) /\ InRange(c, VEHICLE_MAX)
              THEN /\ last'.verdict = "accepted"
                   /\ OneRequest
                   /\ parseFloat(Segments(requests'[Len(requests')].path)[2])
                         = c
              ELSE /\ last'.verdict = "rejected"
                   /\ requests' = requests ]_vars

(***************************************************************************)
(* C5  handleWeightSubmit accepts the weight w, and posts /weight with     *)
(*     body {weight: w}, exactly when the input is non-empty and w > 0; an *)
(*     empty input is rejected as missing, and zero, a negative number or  *)
(*     a non-number as invalid, with nothing dispatched.                   *)
(***************************************************************************)
C5_WeightAcceptedIffPositive ==
    [][ RunOf("weight") =>
          LET w == parseFloat(weight)
          IN  IF weight = <<>>
              THEN /\ last'.verdict = "rejected"
                   /\ requests' = requests
                   /\ OneToast
                   /\ toasts'[Len(toasts')].description
                         = "Please enter a weight value"
              ELSE IF ~w.nan /\ ~w.neg /\ w.m > 0
              THEN /\ last'.verdict = "accepted"
                   /\ OneRequest
                   /\ requests'[Len(requests')].path
                         = <<"/", "w", "e", "i", "g", "h", "t">>
                   /\ requests'[Len(requests')].body = <<w>>
                   /\ toasts' = toasts
              ELSE /\ last'.verdict = "rejected"
                   /\ requests' = requests
                   /\ OneToast
                   /\ toasts'[Len(toasts')].title = "Invalid weight"
                   /\ toasts'[Len(toasts')].description
                         = "Please enter a valid weight value" ]_vars

\* The weight 0.01 was accepted and is in flight as the body of POST /weight.
C5_Witness ==
    /\ last.op = "weight"
    /\ last.verdict = "accepted"
    /\ last.raw = <<"0", ".", "0", "1">>
    /\ LastRequest.kind = "weight"
    /\ LastRequest.body = <<Num(FALSE, 1, -2)>>
    /\ weight = <<>>

\* Zero was entered as the weight and rejected, nothing sent.
C5_WitnessZero ==
    /\ last.op = "weight"
    /\ last.verdict = "rejected"
    /\ last.raw = <<"0">>
    /\ requests = <<>>

(***************************************************************************)
(* C6  Every dispatch makes exactly one network call, also when an equal   *)
(*     request is already in flight, and a completion, successful or not,  *)
(*     makes none: requests are never retried and never change once        *)
(*     completed.                                                          *)
(***************************************************************************)
Completes(id) ==
    requests[id].status = "pending" /\ requests'[id].status # "pending"

C6_OneCallPerDispatch ==
    [][ /\ ( /\ Total' = Total + 1
             /\ variant = "networked"
             /\ last'.verdict = "accepted"
             /\ last'.op \in {"slider", "manual", "vehicle", "weight"} )
           => OneRequest
        /\ (\E id \in 1..Len(requests) : Completes(id))
           => /\ Len(requests') = Len(requests)
              /\ Cardinality({id \in 1..Len(requests) : Completes(id)}) = 1
        /\ \A id \in 1..Len(requests) :
              /\ [requests'[id] EXCEPT !.status = requests[id].status]
                    = requests[id]
              /\ requests[id].status # "pending" => requests'[id] = requests[id]
      ]_vars

\* The same command was sent twice; the first call failed and was not retried.
C6_Witness ==
    /\ Len(requests) = 2
    /\ requests[1].path = requests[2].path
    /\ requests[1].kind = "axis"
    /\ requests[1].status = "rejected"
    /\ requests[2].status = "pending"

(***************************************************************************)
(* C7  A request in flight has raised no notification, a completed one     *)
(*     exactly one: a success notification if it resolved and a            *)
(*     destructive one if it was rejected.  When every request eventually  *)
(*     completes, every request sent is eventually followed by its         *)
(*     notification.                                                       *)
(***************************************************************************)
ToastsOf(id) == {i \in 1..Len(toasts) : toasts[i].req = id}

C7_EveryOutcomeNotified ==
    /\ [](\A id \in 1..Len(requests) :
            CASE requests[id].status = "pending" -> ToastsOf(id) = {}
              [] requests[id].status = "resolved" ->
                   /\ Cardinality(ToastsOf(id)) = 1
                   /\ \A i \in ToastsOf(id) : toasts[i].variant = "default"
              [] requests[id].status = "rejected" ->
                   /\ Cardinality(ToastsOf(id)) = 1
                   /\ \A i \in ToastsOf(id) : toasts[i].variant = "destructive")
    /\ \A id \in 1..MaxSubmits :
          (Len(requests) >= id) ~> (ToastsOf(id) # {})

\* Two requests were in flight together; one resolved, the other was rejected,
\* and each raised its own notification.
C7_Witness ==
    /\ Len(requests) = 2
    /\ requests[1].status = "rejected"
    /\ requests[2].status = "resolved"
    /\ Len(toasts) = 2
    /\ toasts[1].req = 2
    /\ toasts[2].req = 1

(***************************************************************************)
(* C8  In-flight dispatches are not sequenced: the arrival of the response *)
(*     to an axis request writes that request's value to the displayed     *)
(*     axis, also when a newer command has set the axis since.             *)
(***************************************************************************)
C8_StaleResponseOverwrites ==
    [][ \A id \in 1..Len(requests) :
          ( /\ requests[id].kind = "axis"
            /\ requests[id].status = "pending"
            /\ requests'[id].status = "resolved" )
          => axisValues'[requests[id].axis] = requests[id].value ]_vars

(***************************************************************************)
(* C9  Every request matches its template: an axis command has the path    *)
(*     /<AXIS>/<value> with exactly two segments, a vehicle command the    *)
(*     path /vehicle/<code>/<key> with exactly three, none of them empty.  *)
(***************************************************************************)
C9_RequestsMatchTemplate ==
    \A id \in 1..Len(requests) :
        LET r == requests[id]
            segs == Segments(r.path)
        IN  /\ \A i \in 1..Len(segs) : segs[i] # <<>>
            /\ r.kind = "axis" =>
                  /\ Len(segs) = 2
                  /\ segs[1] = toUpperCase(<<r.axis>>)
                  /\ segs[2] = NumberToString(r.value)
            /\ r.kind = "vehicle" =>
                  /\ Len(segs) = 3
                  /\ segs[1] = <<"v", "e", "h", "i", "c", "l", "e">>
                  /\ segs[2] = r.code

(***************************************************************************)
(* C10 An accepted error report sends nothing: handleErrorSubmit with a    *)
(*     selection raises exactly one notification naming the selected type, *)
(*     leaves the requests as they were and clears the selection; with no  *)
(*     selection it is rejected with "No error selected".                  *)
(***************************************************************************)
C10_ErrorReportIsLocal ==
    [][ RunOf("error") =>
          /\ requests' = requests
          /\ IF selectedError # ""
             THEN /\ last'.verdict = "accepted"
                  /\ OneToast
                  /\ toasts'[Len(toasts')].title = "Error reported"
                  /\ toasts'[Len(toasts')].description
                        = "Error type: " \o selectedError
                  /\ toasts'[Len(toasts')].variant = "default"
                  /\ selectedError' = ""
             ELSE /\ last'.verdict = "rejected"
                  /\ OneToast
                  /\ toasts'[Len(toasts')].title = "No error selected"
                  /\ toasts'[Len(toasts')].variant = "destructive" ]_vars

\* "sensor" was reported, and the submit repeated at once was rejected.
C10_Witness ==
    /\ Len(toasts) = 2
    /\ toasts[1].title = "Error reported"
    /\ toasts[1].description = "Error type: sensor"
    /\ toasts[2].title = "No error selected"
    /\ last.op = "error"
    /\ last.verdict = "rejected"
    /\ requests = <<>>

(***************************************************************************)
(* C11 The selection is always empty or one of the five enumerated error   *)
(*     types, handleErrorSubmit accepts exactly when the selection is one  *)
(*     of the five, and the type it reports is the selected one.           *)
(***************************************************************************)
C11_ErrorAcceptedIffEnumerated ==
    LET five == {"calibration", "positioning", "sensor", "communication",
                 "mechanical"}
    IN  /\ selectedError \in five \cup {""}
        /\ last.op = "error" =>
              /\ last.verdict = "accepted" <=> last.sel \in five
              /\ last.verdict = "rejected" <=> last.sel = ""
              /\ last.verdict = "accepted" =>
                    /\ LastToast.title = "Error reported"
                    /\ \E e \in five :
                          LastToast.description = "Error type: " \o e
                    /\ LastToast.description = "Error type: " \o last.sel

\* "mechanical" was selected and reported, then "calibration" was selected.
C11_Witness ==
    /\ last.op = "error"
    /\ last.verdict = "accepted"
    /\ last.sel = "mechanical"
    /\ LastToast.description = "Error type: mechanical"
    /\ selectedError = "calibration"

(***************************************************************************)
(* C12 handleVehicleCodeFetch rejects with the first failing check in the  *)
(*     order missing code, missing key, invalid code: an empty code gives  *)
(*     "Please enter vehicle Code" whatever the key is, a non-empty code   *)
(*     with an empty key gives "Please enter vehicle Key" whatever the     *)
(*     code is, any other rejection is "Please enter a valid vehicle       *)
(*     code", and a rejection sends no request.                            *)
(***************************************************************************)
C12_VehicleChecksInOrder ==
    [][ RunOf("vehicle") =>
          LET t == toasts'[Len(toasts')]
          IN  /\ vehicleCode = <<>> =>
                    /\ last'.verdict = "rejected"
                    /\ t.description = "Please enter vehicle Code"
              /\ vehicleCode # <<>> /\ vehicleKey = <<>> =>
                    /\ last'.verdict = "rejected"
                    /\ t.description = "Please enter vehicle Key"
              /\ vehicleCode # <<>> /\ vehicleKey # <<>>
                    /\ last'.verdict = "rejected" =>
                    /\ t.title = "Invalid value"
                    /\ t.description = "Please enter a valid vehicle code"
              /\ vehicleCode # <<>> /\ vehicleKey # <<>>
                    /\ LessThanInt(parseFloat(vehicleCode), 0) =>
                    last'.verdict = "rejected"
              /\ last'.verdict = "rejected" =>
                    /\ OneToast
                    /\ t.variant = "destructive"
                    /\ requests' = requests
                    /\ count'.dispatched = count.dispatched ]_vars

\* The code "-1" with an empty key was rejected for the key, and nothing
\* was sent.
C12_Witness ==
    /\ last.op = "vehicle"
    /\ last.verdict = "rejected"
    /\ last.raw = <<"-", "1">>
    /\ last.key = <<>>
    /\ LastToast.description = "Please enter vehicle Key"
    /\ requests = <<>>

(***************************************************************************)
(* C13 In every reachable state each of the three displayed axis values    *)
(*     is a number in the closed range from 0 to the ceiling of the        *)
(*     variant (1000000 networked, 100 legacy).                            *)
(***************************************************************************)
C13_AxisValuesInRange ==
    \A a \in {"x", "y", "z"} :
        /\ ~axisValues[a].nan
        /\ ~LessThanInt(axisValues[a], 0)
        /\ ~GreaterThanInt(axisValues[a],
                           IF variant = "networked" THEN 1000000 ELSE 100)

\* An axis sits at the ceiling of its variant, and the manual submission
\* after that command was rejected as out of range.
C13_Witness ==
    /\ \E a \in {"x", "y", "z"} :
          axisValues[a] =
              IF variant = "networked" THEN Num(FALSE, 1, 6)
              ELSE Num(FALSE, 1, 2)
    /\ count.rejected = 1
    /\ last.op = "manual"
    /\ last.verdict = "rejected"
    /\ LastToast.title = "Invalid value"

(***************************************************************************)
(* C14 An axis command changes only its own axis.  Once the latest update  *)
(*     is rendered, each axis of the networked variant shows the value of  *)
(*     the most recent accepted command for it, or its initial value if    *)
(*     there was none; and in both variants an accepted slider change or   *)
(*     manual submission sets its axis to its value and leaves the other   *)
(*     two axes as the commands before it left them, also when it is       *)
(*     handled from the same render as the command before it.              *)
(***************************************************************************)
C14_CommandChangesOnlyItsAxis ==
    /\ [] ( (variant = "networked" /\ rendered = axisValues) =>
              \A a \in {"x", "y", "z"} :
                  /\ (\A id \in 1..Len(requests) : ~LatestFor(a, id)) =>
                        rendered[a] = Zero
                  /\ \A id \in 1..Len(requests) :
                        LatestFor(a, id) => rendered[a] = requests[id].value )
    /\ [][ ((RunOf("slider") \/ RunOf("manual"))
               /\ last'.verdict = "accepted") =>
              /\ axisValues'[last'.sel] = last'.value
              /\ \A a \in {"x", "y", "z"} \ {last'.sel} :
                    axisValues'[a] = axisValues[a] ]_vars

====
